---------------------------- MODULE Spec2Model ----------------------------
(***************************************************************************)
(* Model of src/app.py, the goal-based SIP calculator: the time-value      *)
(* formulas, the step-up SIP bisection solver, the proportional capital    *)
(* allocator and the "Calculate Plan" goal loop.                           *)
(*                                                                         *)
(* Numbers.  The program computes in Python floats.  A float is modelled   *)
(* by an exact rational <<n, d>> (d > 0, lowest terms), so the rounding    *)
(* error of a single float operation (about 1e-16 relative) is not         *)
(* modelled.  Two places where the finite precision of a float decides the *)
(* result are modelled explicitly: the bisection midpoint, which is        *)
(* rounded to a grid of 1/FloatGrid (ties to even, as IEEE-754 does), and  *)
(* round(x, 2), which rounds half to even on the cent grid.                *)
(* A power with a fractional exponent (calculate_lump_sum over a number of *)
(* months that is no multiple of 12) is irrational and is kept as an exact *)
(* coefficient together with the number of twelfths left in the exponent.  *)
(***************************************************************************)
EXTENDS Integers, Sequences, FiniteSets

VARIABLES
    \* ---- calculate_sip_step_up / calculate_sip / compute_future_value ----
    fv,                  \* target future value (the solver's argument; the
                         \* goal loop's running remainder)
    annual_return,       \* annual return passed to the solver
    years,               \* horizon in years (a multiple of 1/12)
    annual_step_up,      \* annual step-up rate
    call,                \* which function ran last
    outcome,             \* what it returned or raised
    prev_fv,             \* target of the preceding calculate_sip_step_up call
    prev_outcome,        \* and its outcome
    start_sip,           \* compute_future_value: its argument
    month,               \* compute_future_value: loop index
    sip_amount,          \* compute_future_value: current contribution level
    fv_accum,            \* compute_future_value: accumulated value
    \* ---- distribute_proportionally ----
    goals,               \* list of goals
    total_amount,        \* pool amount
    lump_sum_year,       \* availability year, or None
    distribution,        \* returned dict: goal name -> amount
    \* ---- Calculate Plan ----
    current_savings,
    future_lumps,
    sip_start_year,
    sip_start_month,
    sip_grows,
    annual_growth_rate,
    expected_return,
    current_savings_distribution,
    future_lumps_distribution,
    pc,                  \* position in the script
    lump_i,              \* index into future_lumps / goal_lumps
    goal_i,              \* index into goals
    results,
    total_fv,
    total_lumpsum,
    total_sip,
    skipped              \* names of the goals the loop warned about

solverVars == <<fv, annual_return, years, annual_step_up, call, outcome,
                prev_fv, prev_outcome, start_sip, month, sip_amount, fv_accum>>
allocVars == <<goals, total_amount, lump_sum_year, distribution>>
planVars == <<current_savings, future_lumps, sip_start_year, sip_start_month,
              sip_grows, annual_growth_rate, expected_return,
              current_savings_distribution, future_lumps_distribution,
              pc, lump_i, goal_i, results, total_fv, total_lumpsum, total_sip,
              skipped>>
vars == <<fv, annual_return, years, annual_step_up, call, outcome,
          prev_fv, prev_outcome, start_sip, month, sip_amount, fv_accum,
          goals, total_amount, lump_sum_year, distribution,
          current_savings, future_lumps, sip_start_year, sip_start_month,
          sip_grows, annual_growth_rate, expected_return,
          current_savings_distribution, future_lumps_distribution,
          pc, lump_i, goal_i, results, total_fv, total_lumpsum, total_sip,
          skipped>>

---------------------------------------------------------------------------
(* Float arithmetic as exact rationals <<numerator, denominator>>.         *)

Abs(x) == IF x < 0 THEN -x ELSE x

RECURSIVE GCD(_, _)
GCD(a, b) == IF b = 0 THEN a ELSE GCD(b, a % b)

Rat(n, d) ==
    LET g == GCD(Abs(n), d) IN <<n \div g, d \div g>>

FromInt(i) == <<i, 1>>

Zero == FromInt(0)

One == FromInt(1)

RAdd(a, b) ==
    LET g == GCD(a[2], b[2])
    IN  Rat(a[1] * (b[2] \div g) + b[1] * (a[2] \div g), (a[2] \div g) * b[2])

RNeg(a) == <<-a[1], a[2]>>

RSub(a, b) == RAdd(a, RNeg(b))

RMul(a, b) ==
    LET g1 == GCD(Abs(a[1]), b[2])
        g2 == GCD(Abs(b[1]), a[2])
    IN  Rat((a[1] \div g1) * (b[1] \div g2), (a[2] \div g2) * (b[2] \div g1))

RInv(a) == IF a[1] > 0 THEN <<a[2], a[1]>> ELSE <<-a[2], -a[1]>>

RDiv(a, b) == RMul(a, RInv(b))

RLess(a, b) ==
    LET g == GCD(a[2], b[2])
    IN  a[1] * (b[2] \div g) < b[1] * (a[2] \div g)

RLeq(a, b) == ~RLess(b, a)

RMax(a, b) == IF RLess(a, b) THEN b ELSE a

\* a ** k for an integer k, by repeated squaring.
RECURSIVE RPow(_, _)
RPow(a, k) ==
    IF k < 0 THEN RInv(RPow(a, -k))
    ELSE IF k = 0 THEN One
    ELSE IF k % 2 = 0 THEN LET h == RPow(a, k \div 2) IN RMul(h, h)
    ELSE RMul(a, RPow(a, k - 1))

\* int(x): truncation toward zero.
Trunc(a) == IF a[1] >= 0 THEN a[1] \div a[2] ELSE -((-a[1]) \div a[2])

\* The integer nearest to a, a tie going to the even one.
NearestEven(a) ==
    LET q == a[1] \div a[2]
        r == a[1] - q * a[2]
    IN  IF 2 * r < a[2] THEN q
        ELSE IF 2 * r > a[2] THEN q + 1
        ELSE IF q % 2 = 0 THEN q ELSE q + 1

\* round(x, 2)
Round2(a) == Rat(NearestEven(RMul(a, FromInt(100))), 100)

\* Number of representable values per unit on the grid that stands for the
\* float grid in the bisection.
FloatGrid == 1000

\* The float nearest to a.
ToFloat(a) == Rat(NearestEven(RMul(a, FromInt(FloatGrid))), FloatGrid)

RECURSIVE RSum(_, _)
RSum(f, S) ==
    IF S = {} THEN Zero
    ELSE LET x == CHOOSE y \in S : TRUE IN RAdd(f[x], RSum(f, S \ {x}))

Returned(v) == [raised |-> "none", value |-> v]

Raised(e) == [raised |-> e, value |-> Zero]

---------------------------------------------------------------------------
(* Utility functions, src/app.py lines 8-74.                               *)

calculate_future_value(present_value, rate, yrs) ==
    RMul(present_value, RPow(RAdd(One, rate), yrs))

\* LoopBody with the step-up applied when the loop index, instead of the
\* number of months paid, is a multiple of 12.
LoopBody_StepAtIndex(st, monthly_rate, total_months, step_up) ==
    LET grown == RMul(st.sip_amount,
                      RPow(RAdd(One, monthly_rate), total_months - st.month))
    IN  [month      |-> st.month + 1,
         sip_amount |-> IF st.month % 12 = 0
                        THEN RMul(st.sip_amount, RAdd(One, step_up))
                        ELSE st.sip_amount,
         fv_accum   |-> RAdd(st.fv_accum, grown)]

\* One pass of the body of the loop of compute_future_value, on the loop
\* state st = [month, sip_amount, fv_accum].
LoopBody(st, monthly_rate, total_months, step_up) ==
    LET grown == RMul(st.sip_amount,
                      RPow(RAdd(One, monthly_rate), total_months - st.month))
    IN  [month      |-> st.month + 1,
         sip_amount |-> IF (st.month + 1) % 12 = 0
                        THEN RMul(st.sip_amount, RAdd(One, step_up))
                        ELSE st.sip_amount,
         fv_accum   |-> RAdd(st.fv_accum, grown)]

LoopStart(s) == [month |-> 0, sip_amount |-> s, fv_accum |-> Zero]

RECURSIVE RunLoop(_, _, _, _)
RunLoop(st, monthly_rate, total_months, step_up) ==
    IF st.month >= total_months THEN st
    ELSE RunLoop(LoopBody(st, monthly_rate, total_months, step_up),
                 monthly_rate, total_months, step_up)

compute_future_value(s, monthly_rate, total_months, step_up) ==
    RunLoop(LoopStart(s), monthly_rate, total_months, step_up).fv_accum

\* for _ in range(100)
Iterations == 100

MidPoint(low, high) == ToFloat(RDiv(RAdd(low, high), FromInt(2)))

\* BisectBody with the two branches exchanged.
BisectBody_Swapped(b, target, monthly_rate, total_months, step_up) ==
    LET mid == MidPoint(b.low, b.high)
    IN  IF RLess(compute_future_value(mid, monthly_rate, total_months, step_up),
                 target)
        THEN [low |-> b.low, high |-> mid, mid |-> mid, i |-> b.i + 1]
        ELSE [low |-> mid, high |-> b.high, mid |-> mid, i |-> b.i + 1]

\* One pass of the bisection loop on b = [low, high, mid, i], i the number
\* of passes made.
BisectBody(b, target, monthly_rate, total_months, step_up) ==
    LET mid == MidPoint(b.low, b.high)
    IN  IF RLess(compute_future_value(mid, monthly_rate, total_months, step_up),
                 target)
        THEN [low |-> mid, high |-> b.high, mid |-> mid, i |-> b.i + 1]
        ELSE [low |-> b.low, high |-> mid, mid |-> mid, i |-> b.i + 1]

\* The loop "for _ in range(100)".  A pass is a function of low and high
\* alone, so once a pass leaves both as they were every later pass repeats
\* it: the remaining passes are then counted without being recomputed.
RECURSIVE Bisect(_, _, _, _, _)
Bisect(b, target, monthly_rate, total_months, step_up) ==
    IF b.i >= Iterations THEN b
    ELSE LET nb == BisectBody(b, target, monthly_rate, total_months, step_up)
         IN  IF nb.low = b.low /\ nb.high = b.high
             THEN [nb EXCEPT !.i = Iterations]
             ELSE Bisect(nb, target, monthly_rate, total_months, step_up)

calculate_sip_step_up(target, rate, yrs, step_up) ==
    LET monthly_rate == RDiv(rate, FromInt(12))
        total_months == Trunc(RMul(yrs, FromInt(12)))
        b == Bisect([low |-> Zero, high |-> target, mid |-> Zero, i |-> 0],
                    target, monthly_rate, total_months, step_up)
    IN  Returned(Round2(b.mid))

calculate_sip(target, rate, n_months) ==
    LET monthly_rate == RDiv(rate, FromInt(12))
        denom == RSub(RPow(RAdd(One, monthly_rate), n_months), One)
    IN  IF denom = Zero THEN Raised("ZeroDivisionError")
        ELSE Returned(RDiv(RMul(target, monthly_rate), denom))

\* fv / ((1 + rate) ** years) for years a whole number of months: the exact
\* value is coef * (1 + rate) ** (-twelfths / 12).
calculate_lump_sum(target, rate, yrs) ==
    LET months == Trunc(RMul(yrs, FromInt(12)))
        whole == months \div 12
    IN  [coef     |-> RDiv(target, RPow(RAdd(One, rate), whole)),
         twelfths |-> months - 12 * whole]

Names(gs) == {gs[i].Name : i \in 1..Len(gs)}

Zeros(gs) == [n \in Names(gs) |-> Zero]

\* EligibleGoals with the comparison "goal year >= lump sum year".
EligibleGoals_SameYear(gs, year) ==
    IF year = <<>> THEN 1..Len(gs)
    ELSE {i \in 1..Len(gs) : gs[i].Year >= year[1]}

\* eligible_goals, as the indices into goals.
EligibleGoals(gs, year) ==
    IF year = <<>> THEN 1..Len(gs)
    ELSE {i \in 1..Len(gs) : gs[i].Year > year[1]}

RECURSIVE SumCost(_, _)
SumCost(gs, idx) ==
    IF idx = {} THEN Zero
    ELSE LET i == CHOOSE j \in idx : TRUE
         IN  RAdd(gs[i].Present_Cost, SumCost(gs, idx \ {i}))

\* distribute_proportionally with the proportion taken of the present cost of
\* all the goals instead of the eligible ones.
distribute_proportionally_AllCosts(amount, gs, year) ==
    IF Len(gs) = 0 \/ RLeq(amount, Zero) THEN Zeros(gs)
    ELSE LET eligible_goals == EligibleGoals(gs, year)
             total_present_cost == SumCost(gs, 1..Len(gs))
         IN  IF eligible_goals = {} THEN Zeros(gs)
             ELSE IF total_present_cost = Zero THEN Zeros(gs)
             ELSE [n \in Names(gs) |->
                     LET mine == {i \in eligible_goals : gs[i].Name = n}
                     IN  IF mine = {} THEN Zero
                         ELSE LET last == CHOOSE i \in mine :
                                              \A j \in mine : j <= i
                                  proportion == RDiv(gs[last].Present_Cost,
                                                     total_present_cost)
                              IN  RMul(amount, proportion)]

\* year is <<>> for None and <<y>> for the year y.
distribute_proportionally(amount, gs, year) ==
    IF Len(gs) = 0 \/ RLeq(amount, Zero) THEN Zeros(gs)
    ELSE LET eligible_goals == EligibleGoals(gs, year)
             total_present_cost == SumCost(gs, eligible_goals)
         IN  IF eligible_goals = {} THEN Zeros(gs)
             ELSE IF total_present_cost = Zero THEN Zeros(gs)
             ELSE [n \in Names(gs) |->
                     LET mine == {i \in eligible_goals : gs[i].Name = n}
                     IN  IF mine = {} THEN Zero
                         ELSE LET last == CHOOSE i \in mine :
                                              \A j \in mine : j <= i
                                  proportion == RDiv(gs[last].Present_Cost,
                                                     total_present_cost)
                              IN  RMul(amount, proportion)]

\* datetime.now().year, the origin of the model's calendar.
current_year == 0

\* The goal record built from one goal's inputs.
Goal(name, target_year, present_cost, inflation_rate) ==
    [Name           |-> name,
     Year           |-> target_year,
     Present_Cost   |-> present_cost,
     Inflation_Rate |-> inflation_rate,
     Years_to_Goal  |-> target_year - current_year,
     Future_Value   |-> calculate_future_value(present_cost, inflation_rate,
                                               target_year - current_year)]


---------------------------------------------------------------------------
(* States in which a part of the program has not run.                      *)

NotCalled == [raised |-> "not called", value |-> Zero]

SolverIdle ==
    /\ fv = Zero /\ annual_return = Zero /\ years = Zero
    /\ annual_step_up = Zero
    /\ call = "none" /\ outcome = NotCalled
    /\ prev_fv = Zero /\ prev_outcome = NotCalled
    /\ start_sip = Zero /\ month = 0 /\ sip_amount = Zero /\ fv_accum = Zero

AllocIdle ==
    /\ total_amount = Zero /\ lump_sum_year = <<>> /\ distribution = <<>>

PlanIdle ==
    /\ current_savings = Zero /\ future_lumps = <<>>
    /\ sip_start_year = 0 /\ sip_start_month = 1
    /\ sip_grows = FALSE /\ annual_growth_rate = Zero
    /\ expected_return = Zero
    /\ current_savings_distribution = <<>>
    /\ future_lumps_distribution = <<>>
    /\ pc = "idle" /\ lump_i = 0 /\ goal_i = 0
    /\ results = <<>> /\ total_fv = Zero
    /\ total_lumpsum = [coef |-> Zero, twelfths |-> 0]
    /\ total_sip = Zero /\ skipped = <<>>

---------------------------------------------------------------------------
(* The solver and the constant-SIP formula called on their own.            *)

\* Number of target future values tried besides 0.
MaxTarget == 8

\* Targets 0, 1/8, 1/2, 9/8, 2, ...: whole and fractional amounts.
Targets == {Rat(k * k, 8) : k \in 0..MaxTarget}

StepUps == {Zero, <<1, 10>>, One}

StartSips == {One, <<5, 2>>}

\* <<annual return, number of months>>: no return with horizons into the
\* third year, 20% and 1200% a year with short ones.
RateHorizons ==
    ({Zero} \X {-1, 0, 1, 2, 3, 12, 13, 25})
        \cup ({<<1, 5>>} \X {1, 2})
        \cup ({FromInt(12)} \X {1, 2, 3, 13})

MonthsOf(yrs) == Trunc(RMul(yrs, FromInt(12)))

SolverInit ==
    /\ \E rh \in RateHorizons :
          /\ annual_return = rh[1]
          /\ years = Rat(rh[2], 12)
    /\ annual_step_up \in StepUps
    /\ fv = Zero
    /\ call = "none" /\ outcome = NotCalled
    /\ prev_fv = Zero /\ prev_outcome = NotCalled
    /\ start_sip = Zero /\ month = 0 /\ sip_amount = Zero /\ fv_accum = Zero
    /\ goals = <<>> /\ AllocIdle /\ PlanIdle

\* calculate_sip_step_up(t, annual_return, years, annual_step_up), at most
\* twice in a row with the same rates and horizon.
SolveStepUp(t) ==
    /\ call \in {"none", "calculate_sip_step_up"}
    /\ prev_outcome = NotCalled
    /\ call' = "calculate_sip_step_up"
    /\ prev_fv' = fv
    /\ prev_outcome' = outcome
    /\ fv' = t
    /\ outcome' = calculate_sip_step_up(t, annual_return, years, annual_step_up)
    /\ UNCHANGED <<annual_return, years, annual_step_up,
                   start_sip, month, sip_amount, fv_accum>>
    /\ UNCHANGED <<allocVars, planVars>>

\* calculate_sip(t, annual_return, n_months)
SolveConstant(t) ==
    /\ call = "none"
    /\ call' = "calculate_sip"
    /\ fv' = t
    /\ outcome' = calculate_sip(t, annual_return, MonthsOf(years))
    /\ UNCHANGED <<annual_return, years, annual_step_up, prev_fv, prev_outcome,
                   start_sip, month, sip_amount, fv_accum>>
    /\ UNCHANGED <<allocVars, planVars>>

\* compute_future_value(s): entry, one pass of its loop, return.
AccumulateStart(s) ==
    /\ call = "none"
    /\ call' = "compute_future_value"
    /\ start_sip' = s
    /\ month' = LoopStart(s).month
    /\ sip_amount' = LoopStart(s).sip_amount
    /\ fv_accum' = LoopStart(s).fv_accum
    /\ UNCHANGED <<fv, annual_return, years, annual_step_up, outcome,
                   prev_fv, prev_outcome>>
    /\ UNCHANGED <<allocVars, planVars>>

AccumulateMonth ==
    /\ call = "compute_future_value"
    /\ outcome = NotCalled
    /\ month < MonthsOf(years)
    /\ LET st == LoopBody([month |-> month, sip_amount |-> sip_amount,
                           fv_accum |-> fv_accum],
                          RDiv(annual_return, FromInt(12)), MonthsOf(years),
                          annual_step_up)
       IN  /\ month' = st.month
           /\ sip_amount' = st.sip_amount
           /\ fv_accum' = st.fv_accum
    /\ UNCHANGED <<fv, annual_return, years, annual_step_up, call, outcome,
                   prev_fv, prev_outcome, start_sip>>
    /\ UNCHANGED <<allocVars, planVars>>

AccumulateReturn ==
    /\ call = "compute_future_value"
    /\ outcome = NotCalled
    /\ month >= MonthsOf(years)
    /\ outcome' = Returned(fv_accum)
    /\ UNCHANGED <<fv, annual_return, years, annual_step_up, call,
                   prev_fv, prev_outcome, start_sip, month, sip_amount,
                   fv_accum>>
    /\ UNCHANGED <<allocVars, planVars>>

SolverNext ==
    \/ \E t \in Targets : SolveStepUp(t)
    \/ \E t \in Targets : SolveConstant(t)
    \/ \E s \in StartSips : AccumulateStart(s)
    \/ AccumulateMonth
    \/ AccumulateReturn

SpecSolver == SolverInit /\ [][SolverNext]_vars

---------------------------------------------------------------------------
(* distribute_proportionally called on its own.                            *)

\* Largest number of goals in a list.
MaxGoals == 3

\* Goals are told apart by their names (a goal's name is its key in every
\* allocation), so the i-th goal of a list is given the i-th name.
GoalNames == <<"A", "B", "C", "D", "E">>

Costs == {Zero, One, FromInt(3)}

RECURSIVE GoalLists(_, _, _)
GoalLists(k, yrs, infl) ==
    IF k = 0 THEN {<<>>}
    ELSE {Append(gs, Goal(GoalNames[k], y, c, f)) :
             gs \in GoalLists(k - 1, yrs, infl), y \in yrs, c \in Costs,
             f \in infl}

AllocYears == {1, 2, 3}

Pools == {Zero, One, FromInt(10)}

AllocInit ==
    /\ goals \in UNION {GoalLists(k, AllocYears, {Zero}) : k \in 0..MaxGoals}
    /\ total_amount \in Pools
    /\ lump_sum_year \in {<<>>} \cup {<<y>> : y \in AllocYears}
    /\ distribution = <<>>
    /\ SolverIdle /\ PlanIdle

Distribute ==
    /\ call = "none"
    /\ call' = "distribute_proportionally"
    /\ distribution' = distribute_proportionally(total_amount, goals,
                                                 lump_sum_year)
    /\ UNCHANGED <<fv, annual_return, years, annual_step_up, outcome, prev_fv,
                   prev_outcome, start_sip, month, sip_amount, fv_accum>>
    /\ UNCHANGED <<goals, total_amount, lump_sum_year>>
    /\ UNCHANGED planVars

AllocNext == Distribute

SpecAlloc == AllocInit /\ [][AllocNext]_vars

---------------------------------------------------------------------------
(* The "Calculate Plan" handler, src/app.py lines 136-212, one action per  *)
(* statement group so that the state after every deduction is a state of   *)
(* the model.                                                              *)

\* dict.get(key, default)
Get(d, key, default) == IF key \in DOMAIN d THEN d[key] ELSE default

\* n_months of a goal: from the SIP start to December of the target year.
\* sip_start_month is kept as the month's number, month_map[sip_start_month].
NMonths(goal) ==
    LET start_date_month_index == sip_start_year * 12 + sip_start_month
        target_date_month_index == goal.Year * 12 + 12
    IN  target_date_month_index - start_date_month_index

\* The skip test with "n_months < 0".
Skips_OnlyNegative(n_months) == n_months < 0

\* if n_months <= 0: warn and continue
Skips(n_months) == n_months <= 0

\* The deduction without the floor.
Deduct_NoFloor(remaining, value) == RSub(remaining, value)

\* fv = max(0, fv - value)
Deduct(remaining, value) == RMax(Zero, RSub(remaining, value))

\* amount * ((1 + expected_return) ** n_years)
Grown(amount, n_years) == RMul(amount, RPow(RAdd(One, expected_return), n_years))

\* total_lumpsum += lumpsum_required, on values coef * (1+r)^(-twelfths/12).
\* Every goal of one run has the same twelfths (n_months modulo 12).
LumpAdd(a, b) ==
    IF a.coef = Zero THEN b
    ELSE [coef |-> RAdd(a.coef, b.coef), twelfths |-> b.twelfths]

NoLumpSum == [coef |-> Zero, twelfths |-> 0]

RECURSIVE SumAmounts(_)
SumAmounts(lumps) ==
    IF lumps = <<>> THEN Zero
    ELSE RAdd(Head(lumps).amount, SumAmounts(Tail(lumps)))

\* Inputs.  Every goal is due no later than the year the SIP starts and the
\* SIP starts in October or December, so that a goal is 2 or 0 months away
\* or lies before the start.
MaxPlanGoals == 3

\* <<target year, present cost, inflation rate>> of a goal.
PlanGoalKinds ==
    {<<current_year, One, <<1, 2>>>>,
     <<current_year, FromInt(3), Zero>>,
     <<current_year + 1, One, <<1, 2>>>>,
     <<current_year + 1, FromInt(3), Zero>>}

PlanStartYears == {current_year, current_year + 1}

PlanStartMonths == {10, 12}

PlanSavings == {Zero, FromInt(3)}

PlanReturns == {<<1, 5>>}

\* [grows, rate]: constant, or growing by 10% a year.
PlanGrowth == {<<FALSE, Zero>>, <<TRUE, <<1, 10>>>>}

Lump(y, a) == [year |-> y, amount |-> a]

PlanLumps ==
    {<<>>,
     <<Lump(current_year, FromInt(2))>>,
     <<Lump(current_year, FromInt(2)), Lump(current_year, One)>>,
     <<Lump(current_year + 1, One), Lump(current_year, FromInt(2))>>,
     <<Lump(current_year, Zero), Lump(current_year, FromInt(2))>>}

RECURSIVE PlanGoalLists(_, _)
PlanGoalLists(k, last_year) ==
    IF k = 0 THEN {<<>>}
    ELSE {Append(gs, Goal(GoalNames[k], kind[1], kind[2], kind[3])) :
             gs \in PlanGoalLists(k - 1, last_year),
             kind \in {x \in PlanGoalKinds : x[1] <= last_year}}

PlanInit ==
    /\ SolverIdle
    /\ AllocIdle
    /\ sip_start_year \in PlanStartYears
    /\ sip_start_month \in PlanStartMonths
    /\ goals \in UNION {PlanGoalLists(k, sip_start_year) :
                           k \in 1..MaxPlanGoals}
    /\ current_savings \in PlanSavings
    /\ future_lumps \in PlanLumps
    /\ \E g \in PlanGrowth : sip_grows = g[1] /\ annual_growth_rate = g[2]
    /\ expected_return \in PlanReturns
    /\ current_savings_distribution = <<>>
    /\ future_lumps_distribution = <<>>
    /\ pc = "start" /\ lump_i = 0 /\ goal_i = 0
    /\ results = <<>> /\ total_fv = Zero /\ total_lumpsum = NoLumpSum
    /\ total_sip = Zero /\ skipped = <<>>

\* DistributeSavings with the savings shared among the goals that will not
\* be skipped.
DistributeSavings_NotSkipped ==
    /\ pc = "start"
    /\ current_savings_distribution' =
          LET live == SelectSeq(goals, LAMBDA g : ~Skips(NMonths(g)))
              d == distribute_proportionally(current_savings, live, <<>>)
          IN  [n \in Names(goals) |-> Get(d, n, Zero)]
    /\ future_lumps_distribution' = <<>>
    /\ lump_i' = 1
    /\ pc' = "lumps"
    /\ UNCHANGED <<solverVars, allocVars>>
    /\ UNCHANGED <<current_savings, future_lumps, sip_start_year,
                   sip_start_month, sip_grows, annual_growth_rate,
                   expected_return, goal_i, results, total_fv, total_lumpsum,
                   total_sip, skipped>>

\* Lines 140-143.
DistributeSavings ==
    /\ pc = "start"
    /\ current_savings_distribution' =
          distribute_proportionally(current_savings, goals, <<>>)
    /\ future_lumps_distribution' = <<>>
    /\ lump_i' = 1
    /\ pc' = "lumps"
    /\ UNCHANGED <<solverVars, allocVars>>
    /\ UNCHANGED <<current_savings, future_lumps, sip_start_year,
                   sip_start_month, sip_grows, annual_growth_rate,
                   expected_return, goal_i, results, total_fv, total_lumpsum,
                   total_sip, skipped>>

\* Lines 144-153, one lump.
DistributeLump ==
    /\ pc = "lumps"
    /\ lump_i <= Len(future_lumps)
    /\ LET lump == future_lumps[lump_i]
           lump_distribution ==
               distribute_proportionally(lump.amount, goals, <<lump.year>>)
       IN  future_lumps_distribution' =
               [n \in DOMAIN future_lumps_distribution
                           \cup DOMAIN lump_distribution |->
                   LET old == Get(future_lumps_distribution, n, <<>>)
                   IN  IF RLess(Zero, Get(lump_distribution, n, Zero))
                       THEN Append(old, Lump(lump.year, lump_distribution[n]))
                       ELSE old]
    /\ lump_i' = lump_i + 1
    /\ UNCHANGED <<solverVars, allocVars>>
    /\ UNCHANGED <<current_savings, future_lumps, sip_start_year,
                   sip_start_month, sip_grows, annual_growth_rate,
                   expected_return, current_savings_distribution, pc, goal_i,
                   results, total_fv, total_lumpsum, total_sip, skipped>>

\* Lines 155-160: the lumps are done, the goal loop begins.
BeginGoals ==
    /\ pc = "lumps"
    /\ lump_i > Len(future_lumps)
    /\ results' = <<>>
    /\ total_fv' = Zero
    /\ total_lumpsum' = NoLumpSum
    /\ total_sip' = Zero
    /\ goal_i' = 1
    /\ pc' = "goal"
    /\ UNCHANGED <<solverVars, allocVars>>
    /\ UNCHANGED <<current_savings, future_lumps, sip_start_year,
                   sip_start_month, sip_grows, annual_growth_rate,
                   expected_return, current_savings_distribution,
                   future_lumps_distribution, lump_i, skipped>>

\* Lines 161-172 for a goal that is skipped.
SkipGoal ==
    /\ pc = "goal"
    /\ goal_i <= Len(goals)
    /\ Skips(NMonths(goals[goal_i]))
    /\ skipped' = Append(skipped, goals[goal_i].Name)
    /\ goal_i' = goal_i + 1
    /\ UNCHANGED <<solverVars, allocVars>>
    /\ UNCHANGED <<current_savings, future_lumps, sip_start_year,
                   sip_start_month, sip_grows, annual_growth_rate,
                   expected_return, current_savings_distribution,
                   future_lumps_distribution, pc, lump_i, results, total_fv,
                   total_lumpsum, total_sip>>

\* Lines 161-174 for a goal that is planned.
StartGoal ==
    /\ pc = "goal"
    /\ goal_i <= Len(goals)
    /\ ~Skips(NMonths(goals[goal_i]))
    /\ fv' = goals[goal_i].Future_Value
    /\ pc' = "savings"
    /\ UNCHANGED <<annual_return, years, annual_step_up, call, outcome,
                   prev_fv, prev_outcome, start_sip, month, sip_amount,
                   fv_accum>>
    /\ UNCHANGED allocVars
    /\ UNCHANGED <<current_savings, future_lumps, sip_start_year,
                   sip_start_month, sip_grows, annual_growth_rate,
                   expected_return, current_savings_distribution,
                   future_lumps_distribution, lump_i, goal_i, results,
                   total_fv, total_lumpsum, total_sip, skipped>>

\* Lines 177-183.
DeductSavings ==
    /\ pc = "savings"
    /\ LET goal == goals[goal_i]
           current_savings_for_goal ==
               Get(current_savings_distribution, goal.Name, Zero)
       IN  fv' = IF RLess(Zero, current_savings_for_goal)
                 THEN Deduct(fv, Grown(current_savings_for_goal,
                                       goal.Years_to_Goal))
                 ELSE fv
    /\ lump_i' = 1
    /\ pc' = "goal_lumps"
    /\ UNCHANGED <<annual_return, years, annual_step_up, call, outcome,
                   prev_fv, prev_outcome, start_sip, month, sip_amount,
                   fv_accum>>
    /\ UNCHANGED allocVars
    /\ UNCHANGED <<current_savings, future_lumps, sip_start_year,
                   sip_start_month, sip_grows, annual_growth_rate,
                   expected_return, current_savings_distribution,
                   future_lumps_distribution, goal_i, results, total_fv,
                   total_lumpsum, total_sip, skipped>>

\* Lines 184-188, one lump of goal_lumps.
DeductLump ==
    /\ pc = "goal_lumps"
    /\ LET goal == goals[goal_i]
           goal_lumps == Get(future_lumps_distribution, goal.Name, <<>>)
       IN  /\ lump_i <= Len(goal_lumps)
           /\ fv' = IF goal_lumps[lump_i].year <= goal.Year
                    THEN Deduct(fv, Grown(goal_lumps[lump_i].amount,
                                          goal.Year - goal_lumps[lump_i].year))
                    ELSE fv
    /\ lump_i' = lump_i + 1
    /\ UNCHANGED <<annual_return, years, annual_step_up, call, outcome,
                   prev_fv, prev_outcome, start_sip, month, sip_amount,
                   fv_accum>>
    /\ UNCHANGED allocVars
    /\ UNCHANGED <<current_savings, future_lumps, sip_start_year,
                   sip_start_month, sip_grows, annual_growth_rate,
                   expected_return, current_savings_distribution,
                   future_lumps_distribution, pc, goal_i, results, total_fv,
                   total_lumpsum, total_sip, skipped>>

\* Lines 190-212.  An exception raised by calculate_sip ends the script.
FinishGoal ==
    /\ pc = "goal_lumps"
    /\ LET goal == goals[goal_i]
           goal_lumps == Get(future_lumps_distribution, goal.Name, <<>>)
           n_months == NMonths(goal)
           n_years == Rat(n_months, 12)
           lumpsum_required == calculate_lump_sum(fv, expected_return, n_years)
           sip == IF sip_grows
                  THEN calculate_sip_step_up(fv, expected_return, n_years,
                                             annual_growth_rate)
                  ELSE calculate_sip(fv, expected_return, n_months)
       IN  /\ lump_i > Len(goal_lumps)
           /\ total_fv' = RAdd(total_fv, fv)
           /\ total_lumpsum' = LumpAdd(total_lumpsum, lumpsum_required)
           /\ IF sip.raised # "none"
              THEN /\ pc' = "raised"
                   /\ UNCHANGED <<total_sip, results, goal_i>>
              ELSE /\ total_sip' = RAdd(total_sip, sip.value)
                   /\ results' = Append(results,
                         [Goal |-> goal.Name,
                          Target_Year |-> goal.Year,
                          Original_Future_Cost |-> Round2(goal.Future_Value),
                          Current_Savings_Allocated |->
                              Round2(Get(current_savings_distribution,
                                         goal.Name, Zero)),
                          Future_Lump_Sum_Allocated |->
                              Round2(SumAmounts(goal_lumps)),
                          Remaining_Future_Cost |-> Round2(fv),
                          Years_to_Goal |-> Round2(n_years),
                          Monthly_SIP_Required |-> Round2(sip.value),
                          Lump_Sum_Today |-> lumpsum_required])
                   /\ goal_i' = goal_i + 1
                   /\ pc' = "goal"
    /\ UNCHANGED <<fv, annual_return, years, annual_step_up, call, outcome,
                   prev_fv, prev_outcome, start_sip, month, sip_amount,
                   fv_accum>>
    /\ UNCHANGED allocVars
    /\ UNCHANGED <<current_savings, future_lumps, sip_start_year,
                   sip_start_month, sip_grows, annual_growth_rate,
                   expected_return, current_savings_distribution,
                   future_lumps_distribution, lump_i, skipped>>

\* Lines 214-220: the loop is over, the table and the totals are shown.
ShowResults ==
    /\ pc = "goal"
    /\ goal_i > Len(goals)
    /\ pc' = "done"
    /\ UNCHANGED <<solverVars, allocVars>>
    /\ UNCHANGED <<current_savings, future_lumps, sip_start_year,
                   sip_start_month, sip_grows, annual_growth_rate,
                   expected_return, current_savings_distribution,
                   future_lumps_distribution, lump_i, goal_i, results,
                   total_fv, total_lumpsum, total_sip, skipped>>

PlanNext ==
    \/ DistributeSavings
    \/ DistributeLump
    \/ BeginGoals
    \/ SkipGoal
    \/ StartGoal
    \/ DeductSavings
    \/ DeductLump
    \/ FinishGoal
    \/ ShowResults

SpecPlan == PlanInit /\ [][PlanNext]_vars

---------------------------------------------------------------------------
(* Claims about distribute_proportionally, checked under SpecAlloc.        *)

Distributed == call = "distribute_proportionally"

\* Sum of the amounts of a returned dict.
DistSum(d) == RSum(d, DOMAIN d)

\* The goals a pool of the given year may be given to, stated from the
\* goals' years: all of them without a year, those strictly later with one.
StrictlyAfter(gs, year) ==
    {i \in 1..Len(gs) : year = <<>> \/ gs[i].Year > year[1]}

\* C1 as stated: for every pool amount > 0 and every goal list with at least
\* one eligible goal, the returned amounts sum to the pool amount.
C1_SumIsPool_AnyEligible ==
    (/\ Distributed
     /\ RLess(Zero, total_amount)
     /\ EligibleGoals(goals, lump_sum_year) # {})
        => DistSum(distribution) = total_amount

\* C1, amended: for every pool amount > 0 and every goal list whose eligible
\* goals have a present cost that sums to more than 0, the returned amounts
\* sum to the pool amount: nothing is lost and nothing is created.
C1_SumIsPool ==
    (/\ Distributed
     /\ RLess(Zero, total_amount)
     /\ RLess(Zero, SumCost(goals, StrictlyAfter(goals, lump_sum_year))))
        => DistSum(distribution) = total_amount

\* A pool of 10 shared by two goals of different cost while a third, costly
\* goal is not eligible.
C1_Witness ==
    /\ Distributed
    /\ total_amount = FromInt(10)
    /\ lump_sum_year # <<>>
    /\ Len(goals) = 3
    /\ Cardinality(StrictlyAfter(goals, lump_sum_year)) = 2
    /\ \A i \in 1..3 : RLess(Zero, goals[i].Present_Cost)
    /\ \E i, j \in StrictlyAfter(goals, lump_sum_year) :
          goals[i].Present_Cost # goals[j].Present_Cost
    /\ DistSum(distribution) = total_amount

\* C2: every goal is a key of the result; with an availability year a goal
\* is eligible only if its year is strictly greater, so a goal of the same or
\* an earlier year maps to exactly 0; without a year every goal is eligible.
\* An eligible goal of a pool that is shared out gets its share of the cost of
\* the eligible goals.
C2_StrictEligibility ==
    Distributed =>
        /\ DOMAIN distribution = Names(goals)
        /\ \A i \in 1..Len(goals) :
              LET scope == StrictlyAfter(goals, lump_sum_year)
                  cost == SumCost(goals, scope)
              IN  distribution[goals[i].Name] =
                      IF /\ i \in scope
                         /\ RLess(Zero, total_amount)
                         /\ RLess(Zero, cost)
                      THEN RDiv(RMul(total_amount, goals[i].Present_Cost), cost)
                      ELSE Zero

\* A lump sum of year 2: a costly goal due in year 2 gets nothing while a goal
\* due in year 3 is paid.
C2_Witness ==
    /\ Distributed
    /\ lump_sum_year = <<2>>
    /\ RLess(Zero, total_amount)
    /\ \E i, j \in 1..Len(goals) :
          /\ goals[i].Year = 2
          /\ RLess(Zero, goals[i].Present_Cost)
          /\ distribution[goals[i].Name] = Zero
          /\ goals[j].Year = 3
          /\ RLess(Zero, distribution[goals[j].Name])

---------------------------------------------------------------------------
(* Claims about the solver and the constant-SIP formula, checked under     *)
(* SpecSolver.                                                             *)

SteppedUp == call = "calculate_sip_step_up"

MonthlyRate == RDiv(annual_return, FromInt(12))

\* C5: for a target > 0 and a horizon of more than 0 months, the schedule
\* that starts at the returned contribution accumulates to at least the
\* target.
C5_ReachesTarget ==
    (/\ SteppedUp
     /\ RLess(Zero, fv)
     /\ MonthsOf(years) > 0)
        => RLeq(fv, compute_future_value(outcome.value, MonthlyRate,
                                         MonthsOf(years), annual_step_up))

\* C6: with an annual rate of 0 and more than 0 months calculate_sip raises
\* nothing and returns exactly the future value divided by the months.
C6_ZeroRateIsLinear ==
    (/\ call = "calculate_sip"
     /\ annual_return = Zero
     /\ MonthsOf(years) > 0)
        => outcome = Returned(RDiv(fv, FromInt(MonthsOf(years))))

\* C7: called with 0 months or fewer, the step-up solver raises an error and
\* returns no amount.
C7_NoMonthsIsAnError ==
    (/\ SteppedUp
     /\ MonthsOf(years) <= 0)
        => outcome.raised # "none"

\* C8: with the rates and a horizon of more than 0 months held fixed, of two
\* calls of the solver the one with the smaller target returns the smaller
\* (or the same) starting contribution.
C8_MonotoneInTarget ==
    (/\ SteppedUp
     /\ prev_outcome # NotCalled
     /\ MonthsOf(years) > 0
     /\ RLeq(prev_fv, fv))
        => /\ outcome.raised = "none"
           /\ prev_outcome.raised = "none"
           /\ RLeq(prev_outcome.value, outcome.value)

\* Two calls over 13 months with a step-up, the larger target solved to a
\* larger contribution.
C8_Witness ==
    /\ SteppedUp
    /\ prev_outcome # NotCalled
    /\ MonthsOf(years) = 13
    /\ annual_step_up # Zero
    /\ RLess(prev_fv, fv)
    /\ RLess(prev_outcome.value, outcome.value)

\* The contribution level of month m (1, 2, ...): s in the first twelve
\* months, s*(1+g) in the next twelve, and so on.
Level(s, g, m) == RMul(s, RPow(RAdd(One, g), (m - 1) \div 12))

\* The value at the horizon of the contributions of months 1..upto, the
\* contribution of month m compounded for n - m + extra months.
RECURSIVE Schedule(_, _, _, _, _, _)
Schedule(s, mr, g, n, upto, extra) ==
    IF upto <= 0 THEN Zero
    ELSE RAdd(Schedule(s, mr, g, n, upto - 1, extra),
              RMul(Level(s, g, upto), RPow(RAdd(One, mr), n - upto + extra)))

Accumulating == call = "compute_future_value"

\* C9 as stated: after the passes for months 1..month, the accumulated value
\* is that of the contributions of these months, the one of month m
\* compounded for totalMonths - m months, and the level is S*(1+g)^k for the
\* months of year-block k.
C9_CompoundedToHorizon_LessOne ==
    Accumulating =>
        /\ fv_accum = Schedule(start_sip, MonthlyRate, annual_step_up,
                               MonthsOf(years), month, 0)
        /\ sip_amount = Level(start_sip, annual_step_up, month + 1)

\* C9, amended: the contribution of month m is compounded for exactly
\* totalMonths - m + 1 months (the last contribution earns one month of
\* growth), and the level is S*(1+g)^k for every month of year-block k,
\* changing only at block boundaries.
C9_CompoundedToHorizon ==
    Accumulating =>
        /\ fv_accum = Schedule(start_sip, MonthlyRate, annual_step_up,
                               MonthsOf(years), month, 1)
        /\ sip_amount = Level(start_sip, annual_step_up, month + 1)

\* The loop has passed the first year boundary with a positive return and a
\* positive step-up.
C9_Witness ==
    /\ Accumulating
    /\ month = 13
    /\ RLess(Zero, annual_return)
    /\ RLess(Zero, annual_step_up)
    /\ RLess(start_sip, sip_amount)
    /\ RLess(Zero, fv_accum)

---------------------------------------------------------------------------
(* Claims about the goal loop, checked under SpecPlan.                     *)

\* Months from the SIP start to December of the goal's year.
DueMonths(g) == 12 * (g.Year - sip_start_year) + 12 - sip_start_month

InLoop == pc \in {"goal", "savings", "goal_lumps", "done"}

\* Names of the goals among the first k that are planned (live) or skipped.
NamesWhere(k, live) ==
    LET picked == SelectSeq(SubSeq(goals, 1, k),
                            LAMBDA g : (DueMonths(g) > 0) = live)
    IN  [j \in 1..Len(picked) |-> picked[j].Name]

RowNames == [j \in 1..Len(results) |-> results[j].Goal]

\* C3: a goal that is 0 months or fewer from the SIP start is skipped: the
\* step that meets it adds no row and nothing to total_fv, total_sip and
\* total_lumpsum and moves on to the next goal, and the rows are those of the
\* other goals met so far, in input order.
C3_SkippedGoalLeavesNothing ==
    /\ [](InLoop =>
            /\ RowNames = NamesWhere(IF pc = "done" THEN Len(goals)
                                     ELSE goal_i - 1, TRUE)
            /\ skipped = NamesWhere(IF pc = "done" THEN Len(goals)
                                    ELSE goal_i - 1, FALSE))
    /\ [][(/\ pc = "goal"
           /\ goal_i <= Len(goals)
           /\ DueMonths(goals[goal_i]) <= 0)
             => (/\ results' = results
                 /\ total_fv' = total_fv
                 /\ total_sip' = total_sip
                 /\ total_lumpsum' = total_lumpsum
                 /\ goal_i' = goal_i + 1
                 /\ pc' = "goal")]_vars

\* Of three goals the second is skipped and the first and the third have
\* their rows, in this order.
C3_Witness ==
    /\ pc = "done"
    /\ Len(goals) = 3
    /\ DueMonths(goals[1]) > 0
    /\ DueMonths(goals[2]) <= 0
    /\ DueMonths(goals[3]) > 0
    /\ RowNames = <<goals[1].Name, goals[3].Name>>
    /\ skipped = <<goals[2].Name>>
    /\ RLess(Zero, total_fv)

\* What has been taken off the future value of the goal in hand: its share
\* of the savings grown to its year (once pc is past the savings) and the
\* first k of its lump-sum shares, each grown from its year to the goal's.
RECURSIVE GrownLumps(_, _, _)
GrownLumps(lumps, k, goal_year) ==
    IF k = 0 THEN Zero
    ELSE RAdd(GrownLumps(lumps, k - 1, goal_year),
              RMul(lumps[k].amount,
                   RPow(RAdd(One, expected_return), goal_year - lumps[k].year)))

OwnDeductions ==
    LET goal == goals[goal_i]
        share == Get(current_savings_distribution, goal.Name, Zero)
    IN  IF pc = "savings" THEN Zero
        ELSE RAdd(RMul(share, RPow(RAdd(One, expected_return),
                                   goal.Years_to_Goal)),
                  GrownLumps(Get(future_lumps_distribution, goal.Name, <<>>),
                             lump_i - 1, goal.Year))

\* C4: after the savings deduction and after every lump-sum deduction the
\* remainder fv of the goal in hand is between 0 and the goal's future value:
\* it is the future value less the goal's own grown allocations, or exactly 0
\* when these exceed it; what exceeds is taken off no other goal.
C4_RemainderFloored ==
    pc \in {"savings", "goal_lumps"} =>
        /\ RLeq(Zero, fv)
        /\ RLeq(fv, goals[goal_i].Future_Value)
        /\ fv = RMax(Zero, RSub(goals[goal_i].Future_Value, OwnDeductions))

\* Two lump sums taken off a goal whose allocations exceed its future value,
\* after a goal that kept a positive remainder.
C4_Witness ==
    /\ pc = "goal_lumps"
    /\ lump_i = 3
    /\ fv = Zero
    /\ RLess(goals[goal_i].Future_Value, OwnDeductions)
    /\ \E j \in 1..Len(results) : RLess(Zero, results[j].Remaining_Future_Cost)

\* Goals by whether the loop plans them.
Live == {i \in 1..Len(goals) : DueMonths(goals[i]) > 0}

Dead == {i \in 1..Len(goals) : DueMonths(goals[i]) <= 0}

\* A pool is shared out when it is more than 0 and some goal it may go to
\* has a present cost of more than 0.
SharedOut(amount, year) ==
    /\ RLess(Zero, amount)
    /\ RLess(Zero, SumCost(goals, StrictlyAfter(goals, year)))

RECURSIVE SumOver(_, _)
SumOver(f, idx) ==
    IF idx = {} THEN Zero
    ELSE LET i == CHOOSE j \in idx : TRUE
         IN  RAdd(f[i], SumOver(f, idx \ {i}))

\* Savings held by the i-th goal.
SavingsHeld == [i \in 1..Len(goals) |->
                   Get(current_savings_distribution, goals[i].Name, Zero)]

\* Lump-sum money of the year y held by the i-th goal.
LumpsHeld(y) ==
    [i \in 1..Len(goals) |->
        SumAmounts(SelectSeq(Get(future_lumps_distribution, goals[i].Name,
                                 <<>>),
                             LAMBDA e : e.year = y))]

\* The lump sums of the year y, all of them or those that are shared out.
LumpsOfYear(y, all) ==
    SumAmounts(SelectSeq(future_lumps,
                         LAMBDA l : l.year = y
                                      /\ (all \/ SharedOut(l.amount, <<y>>))))

LumpYears == {future_lumps[j].year : j \in 1..Len(future_lumps)}

\* The shares are those of a distribution over all the goals, skipped or not.
SharesOverAllGoals ==
    /\ \A i \in 1..Len(goals) :
          SavingsHeld[i] =
              IF SharedOut(current_savings, <<>>)
              THEN RDiv(RMul(current_savings, goals[i].Present_Cost),
                        SumCost(goals, 1..Len(goals)))
              ELSE Zero
    /\ \A j \in 1..Len(results) :
          \E i \in Live :
             /\ goals[i].Name = results[j].Goal
             /\ results[j].Current_Savings_Allocated = Round2(SavingsHeld[i])
             /\ results[j].Future_Lump_Sum_Allocated =
                    Round2(SumAmounts(Get(future_lumps_distribution,
                                          goals[i].Name, <<>>)))

\* C10 as stated: the pools are shared among all the goals before the skip
\* test, a skipped goal keeps its share, and what the planned goals are
\* credited from a pool is the pool amount less the shares of the skipped
\* goals (lump sums taken year by year).
C10_SkippedSharesAreLost_AnyPool ==
    InLoop =>
        /\ SharesOverAllGoals
        /\ SumOver(SavingsHeld, Live) =
               RSub(current_savings, SumOver(SavingsHeld, Dead))
        /\ \A y \in LumpYears :
              SumOver(LumpsHeld(y), Live) =
                  RSub(LumpsOfYear(y, TRUE), SumOver(LumpsHeld(y), Dead))

\* C10, amended: the same for every pool that is shared out (an amount of
\* more than 0 with an eligible goal of positive present cost); a pool that
\* is not shared out is credited to no goal.  In both cases the planned goals
\* are credited no more than the pool amount.
C10_SkippedSharesAreLost ==
    InLoop =>
        /\ SharesOverAllGoals
        /\ SumOver(SavingsHeld, Live) =
               RSub(IF SharedOut(current_savings, <<>>)
                    THEN current_savings ELSE Zero,
                    SumOver(SavingsHeld, Dead))
        /\ RLeq(SumOver(SavingsHeld, Live), current_savings)
        /\ \A y \in LumpYears :
              /\ SumOver(LumpsHeld(y), Live) =
                     RSub(LumpsOfYear(y, FALSE), SumOver(LumpsHeld(y), Dead))
              /\ RLeq(SumOver(LumpsHeld(y), Live), LumpsOfYear(y, TRUE))

\* The plan is done; a skipped goal holds a part of the savings and a planned
\* goal was credited the rest and a part of a lump sum.
C10_Witness ==
    /\ pc = "done"
    /\ RLess(Zero, SumOver(SavingsHeld, Dead))
    /\ RLess(Zero, SumOver(SavingsHeld, Live))
    /\ RLess(SumOver(SavingsHeld, Live), current_savings)
    /\ \E y \in LumpYears : RLess(Zero, SumOver(LumpsHeld(y), Live))
    /\ \E j \in 1..Len(results) :
          RLess(Zero, results[j].Current_Savings_Allocated)

=============================================================================
